---------------------------- MODULE Spec2Model ----------------------------
(***************************************************************************)
(* A model of exoplanets/astro_data.py: default-parameter resolution, the  *)
(* remote query, the column rename, the CSV cache file and the            *)
(* cache-or-fetch decision of read_kepler_data.                            *)
(*                                                                         *)
(* Python values are tagged records [t |-> tag, v |-> value]:              *)
(*   None            [t |-> "None"]                                        *)
(*   a str           [t |-> "str",  v |-> "..."]                           *)
(*   a list of names [t |-> "list", v |-> <<name, ...>>]                   *)
(*   a dict          [t |-> "dict", v |-> << <<key, value>>, ... >>]       *)
(*                   (insertion ordered, keys distinct)                    *)
(* A text (a column name, a cell, a file's content) is a sequence of       *)
(* atoms.  The characters that matter to the CSV format (the comma, the    *)
(* double quote, the line feed, the minus sign, the dot and the ten        *)
(* digits) are atoms of their own; a maximal run of other characters is    *)
(* one atom ("Kepler ID").                                                 *)
(* A table cell is [t |-> "int", v |-> n] or [t |-> "str", v |-> text],    *)
(* the text not empty.  A DataFrame is [columns |-> names, rows |-> rows], *)
(* with at least one column, every column of one type.                     *)
(***************************************************************************)
EXTENDS Integers, Sequences, FiniteSets, TLC

VARIABLES
    DEFAULT_PARAMS,  \* the module-level dict of astro_data.py
    files,           \* file system: path |-> content, or NoFile
    dirs,            \* file system: the directories that exist
    call,            \* the last call: its arguments and what it did
    ret,             \* the last call's outcome
    first            \* history: path |-> what the first completed cache-miss call returned

vars == <<DEFAULT_PARAMS, files, dirs, call, ret, first>>

---------------------------------------------------------------------------
(* Bounds *)

\* most rows in a table the remote source answers with
MaxRows == 2

\* most rows in a table a caller passes to rename_columns or record_dataframe
MaxFrameRows == 3

---------------------------------------------------------------------------
(* Python values *)

None == [t |-> "None"]

Str(s) == [t |-> "str", v |-> s]

List(names) == [t |-> "list", v |-> names]

Dict(pairs) == [t |-> "dict", v |-> pairs]

\* Python truthiness: bool(x)
Truthy(x) ==
    CASE x.t = "None" -> FALSE
      [] x.t = "str"  -> x.v # ""
      [] x.t = "list" -> Len(x.v) > 0
      [] x.t = "dict" -> Len(x.v) > 0

\* isinstance(columns, dict)
IsDict(x) == x.t = "dict"

\* key in d
HasKey(d, k) == \E i \in 1..Len(d.v) : d.v[i][1] = k

\* d[key]
Lookup(d, k) == d.v[CHOOSE i \in 1..Len(d.v) : d.v[i][1] = k][2]

\* [col for col in columns] of a dict: its keys, in order
Keys(d) == [i \in 1..Len(d.v) |-> d.v[i][1]]

\* one dict item whose key and value contain no character of the CSV format
Item(k, val) == << <<k>>, <<val>> >>

---------------------------------------------------------------------------
(* Texts *)

Digits == <<"0", "1", "2", "3", "4", "5", "6", "7", "8", "9">>

IsDigit(a) == \E d \in 1..10 : Digits[d] = a

DigitValue(a) == (CHOOSE d \in 1..10 : Digits[d] = a) - 1

RECURSIVE NatText(_)
\* str(n) for n >= 0
NatText(n) ==
    IF n < 10 THEN <<Digits[n + 1]>>
    ELSE NatText(n \div 10) \o <<Digits[(n % 10) + 1]>>

\* str(n) of a Python int
IntText(n) == IF n < 0 THEN <<"-">> \o NatText(-n) ELSE NatText(n)

\* the text is an optional sign followed by one or more digits
IsIntText(f) ==
    LET body == IF Len(f) > 0 /\ f[1] = "-" THEN Tail(f) ELSE f
    IN  /\ Len(body) > 0
        /\ \A i \in 1..Len(body) : IsDigit(body[i])

RECURSIVE DigitsValue(_, _)
DigitsValue(body, acc) ==
    IF body = <<>> THEN acc
    ELSE DigitsValue(Tail(body), 10 * acc + DigitValue(body[1]))

\* int(f) of a text for which IsIntText holds
TextInt(f) ==
    IF f[1] = "-" THEN 0 - DigitsValue(Tail(f), 0) ELSE DigitsValue(f, 0)

RECURSIVE Concat(_)
\* the texts of a sequence, one after another
Concat(ts) == IF ts = <<>> THEN <<>> ELSE ts[1] \o Concat(Tail(ts))

RECURSIVE Join(_, _)
\* sep.join(ts)
Join(ts, sep) ==
    IF ts = <<>> THEN <<>>
    ELSE IF Len(ts) = 1 THEN ts[1]
    ELSE ts[1] \o sep \o Join(Tail(ts), sep)

---------------------------------------------------------------------------
(* Outcomes of a call *)

Returned(x) == [t |-> "returned", v |-> x]

Raised(e) == [t |-> "raised", v |-> e]

NoCall == [t |-> "none"]

---------------------------------------------------------------------------
(* pandas: DataFrame.to_csv(filename, index=False) and pandas.read_csv *)

\* str(value) of a cell, as the csv writer formats it
CellText(c) == IF c.t = "int" THEN IntText(c.v) ELSE c.v

\* csv.QUOTE_MINIMAL: a field holding the delimiter, the quote character or
\* a line break is quoted
NeedsQuote(f) == \E i \in 1..Len(f) : f[i] \in {",", "\"", "\n"}

\* doublequote=True: a quote character inside a quoted field is doubled
Escape(f) ==
    Concat([i \in 1..Len(f) |-> IF f[i] = "\"" THEN <<"\"", "\"">> ELSE <<f[i]>>])

CsvField(f) == IF NeedsQuote(f) THEN <<"\"">> \o Escape(f) \o <<"\"">> ELSE f

\* one record: the fields joined by commas, then the line terminator
CsvLine(fields) ==
    Join([i \in 1..Len(fields) |-> CsvField(fields[i])], <<",">>) \o <<"\n">>

\* the text of a row's cells
RowTexts(row) == [j \in 1..Len(row) |-> CellText(row[j])]

\* a variant without index=False: a first column holds the row numbers
to_csv_index(df) ==
    CsvLine(<< <<>> >> \o df.columns)
        \o Concat([i \in 1..Len(df.rows) |->
                     CsvLine(<<NatText(i - 1)>> \o RowTexts(df.rows[i]))])

\* the content df.to_csv(filename, index=False) writes: the header record,
\* then one record per row, no index column
to_csv(df) ==
    CsvLine(df.columns)
        \o Concat([i \in 1..Len(df.rows) |-> CsvLine(RowTexts(df.rows[i]))])

\* One step of the csv tokenizer on atom c.  st.mode: "start" (at the start
\* of a field), "unq" (in an unquoted field), "q" (in a quoted field), "qq"
\* (after a quote character inside a quoted field).  st.fld is the field
\* being read, st.rec the fields of the record being read, st.recs the
\* records read.  A line with nothing on it is skipped.
Step(st, c) ==
    CASE st.mode = "q" /\ c = "\"" -> [st EXCEPT !.mode = "qq"]
      [] st.mode = "q" /\ c # "\"" -> [st EXCEPT !.fld = Append(@, c)]
      [] st.mode = "qq" /\ c = "\"" -> [st EXCEPT !.mode = "q", !.fld = Append(@, c)]
      [] st.mode = "start" /\ c = "\"" -> [st EXCEPT !.mode = "q"]
      [] st.mode # "q" /\ c = "," ->
            [st EXCEPT !.mode = "start", !.fld = <<>>, !.rec = Append(@, st.fld)]
      [] st.mode # "q" /\ c = "\n" ->
            IF st.mode = "start" /\ st.rec = <<>> THEN st
            ELSE [mode |-> "start", fld |-> <<>>, rec |-> <<>>,
                  recs |-> Append(st.recs, Append(st.rec, st.fld))]
      [] OTHER -> [st EXCEPT !.mode = "unq", !.fld = Append(@, c)]

RECURSIVE Scan(_, _, _, _)
\* the tokenizer run from state st over atoms lo..hi of s, left to right
\* (the halves keep the evaluation shallow; the test on left makes the
\* left half be evaluated before the right one starts)
Scan(s, st, lo, hi) ==
    IF lo > hi THEN st
    ELSE IF lo = hi THEN Step(st, s[lo])
    ELSE LET mid == (lo + hi) \div 2
             left == Scan(s, st, lo, mid)
         IN  IF left.mode = "" THEN left ELSE Scan(s, left, mid + 1, hi)

\* the records of a file's content, each a sequence of fields; a last
\* record without a line terminator counts
CsvRecords(content) ==
    LET st == Scan(content, [mode |-> "start", fld |-> <<>>, rec |-> <<>>, recs |-> <<>>],
                   1, Len(content))
    IN  IF st.mode = "start" /\ st.rec = <<>> THEN st.recs
        ELSE Append(st.recs, Append(st.rec, st.fld))

\* mangle_dupe_cols: a column name seen k times before is read as name.k
Mangled(header) ==
    [i \in 1..Len(header) |->
        LET k == Cardinality({j \in 1..(i - 1) : header[j] = header[i]})
        IN  IF k = 0 THEN header[i] ELSE header[i] \o <<".">> \o NatText(k)]

\* field j of a record; a record shorter than the header is padded
FieldAt(rec, j) == IF j <= Len(rec) THEN rec[j] ELSE <<>>

\* type inference: a column all of whose fields are integers is read as
\* integers, any other column as texts, an empty field as a missing value
ColumnIsInt(body, j) ==
    /\ Len(body) > 0
    /\ \A i \in 1..Len(body) : IsIntText(FieldAt(body[i], j))

ParsedCell(body, i, j) ==
    LET f == FieldAt(body[i], j) IN
    IF ColumnIsInt(body, j) THEN [t |-> "int", v |-> TextInt(f)]
    ELSE IF f = <<>> THEN [t |-> "nan"]
    ELSE [t |-> "str", v |-> f]

\* pandas.read_csv(filename) of a file holding content
read_csv(content) ==
    LET recs == CsvRecords(content) IN
    IF recs = <<>> THEN Raised("EmptyDataError")
    ELSE LET header == recs[1]
             body == Tail(recs)
         IN  IF \E i \in 1..Len(body) : Len(body[i]) > Len(header)
             THEN Raised("ParserError")
             ELSE Returned([columns |-> Mangled(header),
                            rows |-> [i \in 1..Len(body) |->
                                        [j \in 1..Len(header) |-> ParsedCell(body, i, j)]]])

---------------------------------------------------------------------------
(* astro_data.py: DEFAULT_PARAMS *)

\* the value the module gives DEFAULT_PARAMS when it is imported
DefaultParamsLiteral ==
    [table \in {"q1_q17_dr25_stellar", "cumulative"} |->
        IF table = "q1_q17_dr25_stellar" THEN
            [columns |-> Dict(<<
                Item("kepid", "KIC Identification Number"),
                Item("tm_designation", "2MASS Designation"),
                Item("ra", "RA Value [decimal degrees]"),
                Item("dec", "Dec Value [decimal degrees]"),
                Item("teff", "Stellar Effective Temperature Value [K]"),
                Item("logg", "Stellar Surface Gravity Value [log10(cm/s**2)]"),
                Item("feh", "Stellar Metallicity Value [dex]"),
                Item("radius", "Stellar Radius Value [Solar radii]"),
                Item("mass", "Stellar Mass Value [Solar mass]"),
                Item("dens", "Stellar Density Value [g/cm**3]"),
                Item("dist", "Distance Value [pc]"),
                Item("av", "Av Extinction Value [mags]"),
                Item("kepmag", "Kepler-band Magnitude Value [mag]"),
                Item("nconfp", "Number of Associated Confirmed Planets"),
                Item("nkoi", "Number of Associated KOIs"),
                Item("ntce", "Number of Associated TCEs"),
                Item("st_quarters", "Bits of Observed Quarters"),
                Item("st_vet_date", "Vetting Status Date") >>),
             where |-> Str("st_quarters like '%1%'")]
        ELSE
            [columns |-> Dict(<<
                Item("kepid", "KIC Identification Number"),
                Item("kepoi_name", "KOI Name"),
                Item("kepler_name", "Kepler Name"),
                Item("ra", "RA Value [decimal degrees]"),
                Item("dec", "Dec Value [decimal degrees]"),
                Item("koi_disposition", "Exoplanet Archive Disposition"),
                Item("koi_score", "Disposition Score"),
                Item("koi_fpflag_nt", "Not Transit-Like Flag"),
                Item("koi_fpflag_ss", "Stellar Eclipse Flag"),
                Item("koi_fpflag_co", "Nearby Star Flag"),
                Item("koi_fpflag_ec", "Contamination Flag"),
                Item("koi_period", "Orbital Period (days)"),
                Item("koi_time0bk", "Transit Epoch"),
                Item("koi_time0", "Transit Epoch in BJD"),
                Item("koi_eccen", "Eccentricity"),
                Item("koi_duration", "Transit Duration (hours)"),
                Item("koi_ingress", "Ingress Duration (hours)"),
                Item("koi_depth", "Transit Depth (parts per million)"),
                Item("koi_ror", "Planet-Star Radius Ratio"),
                Item("koi_srho", "Fitted Stellar Density [g/cm*3]"),
                Item("koi_prad", "Planetary Radius (Earth radii)"),
                Item("koi_incl", "Inclination (deg)"),
                Item("koi_teq", "Equilibrium Temperature (Kelvin)"),
                Item("koi_dor", "Planet-Star Distance over Star Radius"),
                Item("koi_model_snr", "Transit Signal-to-Noise"),
                Item("koi_count", "Number of Planets"),
                Item("koi_num_transits", "Number of Transits"),
                Item("koi_tce_plnt_num", "TCE Planet Number"),
                Item("koi_quarters", "Quarters"),
                Item("koi_kepmag", "Kepler-band (mag)"),
                Item("koi_vet_date", "Vetting Status Date") >>),
             where |-> None]]

---------------------------------------------------------------------------
(* astro_data.py: get_default_params *)

\* a variant that takes the default only for None ("is None" for "not")
get_default_params_is_none(table, columns, where) ==
    IF table \in DOMAIN DEFAULT_PARAMS THEN
        << IF columns = None THEN DEFAULT_PARAMS[table].columns ELSE columns,
           IF where = None THEN DEFAULT_PARAMS[table].where ELSE where >>
    ELSE <<columns, where>>

\* the tuple (columns, where) the function returns
get_default_params(table, columns, where) ==
    IF table \in DOMAIN DEFAULT_PARAMS THEN
        << IF ~Truthy(columns) THEN DEFAULT_PARAMS[table].columns ELSE columns,
           IF ~Truthy(where) THEN DEFAULT_PARAMS[table].where ELSE where >>
    ELSE <<columns, where>>

---------------------------------------------------------------------------
(* astro_data.py: rename_columns *)

\* df.rename(columns=mapping): every column whose name is a key takes the
\* mapped name, all at once; the rows are untouched
Rename(df, mapping) ==
    [df EXCEPT !.columns =
        [i \in 1..Len(df.columns) |->
            IF HasKey(mapping, df.columns[i])
            THEN Lookup(mapping, df.columns[i])
            ELSE df.columns[i]]]

\* a variant that drops the result of df.rename, which is not in place
rename_columns_unassigned(df, columns) == df

rename_columns(df, columns) == IF IsDict(columns) THEN Rename(df, columns) ELSE df

---------------------------------------------------------------------------
(* The remote catalog: NasaExoplanetArchive.query_criteria *)

RECURSIVE SplitFrom(_, _, _, _)
SplitFrom(s, i, fld, flds) ==
    IF i > Len(s) THEN Append(flds, fld)
    ELSE IF s[i] = "," THEN SplitFrom(s, i + 1, <<>>, Append(flds, fld))
    ELSE SplitFrom(s, i + 1, Append(fld, s[i]), flds)

\* select.split(","): the column names the remote source reads in "select"
Split(s) == SplitFrom(s, 1, <<>>, <<>>)

\* the values the remote source answers with: two integers, two texts
RemoteInts == <<8113154, 757076>>

RemoteTexts == << <<"1", "1", "1", "0">>, <<"2MASS J19473063+4356298">> >>

\* The cell of row i, column j of a remote table.  In a "mixed" table the
\* odd columns hold integers and the even columns texts; in a "text" table
\* every column holds texts.  The rows take the two values in turn.
RemoteCell(layout, i, j) ==
    IF layout = "mixed" /\ j % 2 = 1
    THEN [t |-> "int", v |-> RemoteInts[((i - 1) % 2) + 1]]
    ELSE [t |-> "str", v |-> RemoteTexts[((i - 1) % 2) + 1]]

\* the astropy tables the remote source may answer with for these columns
RemoteTables(names) ==
    { [colnames |-> names,
       rows |-> [i \in 1..x[1] |-> [j \in 1..Len(names) |-> RemoteCell(x[2], i, j)]]]
      : x \in (0..MaxRows) \X {"mixed", "text"} }

\* The outcomes of one query: the remote source fails, or answers with a
\* table of the selected columns.  A query that selects nothing fails.
query_criteria(table, select, where) ==
    {Raised("RemoteError")}
        \cup (IF select = <<>> THEN {}
              ELSE {Returned(t) : t \in RemoteTables(Split(select))})

\* astropy: Table.to_pandas()
to_pandas(kepler_data) ==
    [columns |-> kepler_data.colnames, rows |-> kepler_data.rows]

---------------------------------------------------------------------------
(* astro_data.py: get_kepler_data *)

\* a variant that queries a second time when the first query fails
get_kepler_data_retry(table, columns, where) ==
    IF columns.t = "None"
    THEN {[out |-> Raised("TypeError"), did |-> <<"get_kepler_data">>]}
    ELSE LET names == IF IsDict(columns) THEN Keys(columns) ELSE columns.v
             answers == query_criteria(table, Join(names, <<",">>), where)
         IN  {[out |-> a, did |-> <<"get_kepler_data", "query_criteria">>]
                : a \in {b \in answers : b.t = "returned"}}
             \cup {[out |-> a, did |-> <<"get_kepler_data", "query_criteria", "query_criteria">>]
                : a \in answers}

\* The outcomes of get_kepler_data, each with the calls it made (did).
\* ",".join(columns) raises TypeError when columns is None.
get_kepler_data(table, columns, where) ==
    IF columns.t = "None"
    THEN {[out |-> Raised("TypeError"), did |-> <<"get_kepler_data">>]}
    ELSE LET names == IF IsDict(columns) THEN Keys(columns) ELSE columns.v
         IN  {[out |-> a, did |-> <<"get_kepler_data", "query_criteria">>]
                : a \in query_criteria(table, Join(names, <<",">>), where)}

---------------------------------------------------------------------------
(* The file system *)

NoFile == [t |-> "NoFile"]

File(content) == [t |-> "file", v |-> content]

\* the paths callers pass: one in the working directory, one in a
\* directory that does not exist (nor does its parent)
Paths == {"my_file.csv", "out/sub/data.csv"}

\* os.path.dirname(path) or "."
Parent(path) == IF path = "my_file.csv" THEN "." ELSE "out/sub"

\* os.path.isfile(path)
isfile(fs, path) == fs[path] # NoFile

---------------------------------------------------------------------------
(* astro_data.py: record_dataframe *)

\* df.to_csv(path, index=False): opening a file for writing in a directory
\* that does not exist raises OSError and leaves nothing behind
WriteCsv(df, path, fs, ds) ==
    IF Parent(path) \in ds
    THEN [files |-> [fs EXCEPT ![path] = File(to_csv(df))],
          out |-> Returned(None), did |-> <<"to_csv">>]
    ELSE [files |-> fs, out |-> Raised("OSError"), did |-> <<"to_csv">>]

\* a variant that falls back on a default path when no filename is given
record_dataframe_default_path(df, filename, fs, ds) ==
    WriteCsv(df, IF Truthy(filename) THEN filename.v ELSE "my_file.csv", fs, ds)

\* a variant with the test on filename inverted: nothing is ever written
record_dataframe_inverted(df, filename, fs, ds) ==
    [files |-> fs, out |-> Returned(None), did |-> <<>>]

\* the file system after the call, its outcome and the calls it made
record_dataframe(df, filename, fs, ds) ==
    IF Truthy(filename) THEN WriteCsv(df, filename.v, fs, ds)
    ELSE [files |-> fs, out |-> Returned(None), did |-> <<>>]

---------------------------------------------------------------------------
(* astro_data.py: read_kepler_data *)

\* a variant that never finds the file
CacheMiss_always(filename, fs) == TRUE

\* line 105: not filename or not os.path.isfile(filename)
CacheMiss(filename, fs) == ~Truthy(filename) \/ ~isfile(fs, filename.v)

\* a variant that records the table before renaming its columns
MissResults_record_first(table, columns, where, filename, fs, ds) ==
    { IF g.out.t = "raised"
      THEN [files |-> fs, out |-> g.out, did |-> g.did]
      ELSE LET df == to_pandas(g.out.v)
               w == record_dataframe(df, filename, fs, ds)
           IN  [files |-> w.files,
                out |-> IF w.out.t = "raised" THEN w.out
                        ELSE Returned(rename_columns(df, columns)),
                did |-> g.did \o w.did]
      : g \in get_kepler_data(table, columns, where) }

\* lines 106-110: fetch, convert, rename, record.  columns and where are
\* the resolved parameters.
MissResults(table, columns, where, filename, fs, ds) ==
    { IF g.out.t = "raised"
      THEN [files |-> fs, out |-> g.out, did |-> g.did]
      ELSE LET df == rename_columns(to_pandas(g.out.v), columns)
               w == record_dataframe(df, filename, fs, ds)
           IN  [files |-> w.files,
                out |-> IF w.out.t = "raised" THEN w.out ELSE Returned(df),
                did |-> g.did \o w.did]
      : g \in get_kepler_data(table, columns, where) }

\* a variant that records the table it has read (record_dataframe after
\* the if/else instead of inside it)
HitResult_rewrite(filename, fs) ==
    LET rd == read_csv(fs[filename.v].v) IN
    IF rd.t = "raised" THEN [files |-> fs, out |-> rd, did |-> <<"read_csv">>]
    ELSE [files |-> [fs EXCEPT ![filename.v] = File(to_csv(rd.v))],
          out |-> rd, did |-> <<"read_csv", "to_csv">>]

\* lines 112-113: pd.read_csv(filename)
HitResult(filename, fs) ==
    [files |-> fs, out |-> read_csv(fs[filename.v].v), did |-> <<"read_csv">>]

\* the whole call
read_kepler_data(table, columns, where, filename) ==
    LET p == get_default_params(table, columns, where)
        miss == CacheMiss(filename, files)
        results == IF miss
                   THEN MissResults(table, p[1], p[2], filename, files, dirs)
                   ELSE {HitResult(filename, files)}
    IN  \E r \in results :
            /\ files' = r.files
            /\ ret' = r.out
            /\ call' = [op |-> "read_kepler_data", filename |-> filename,
                        columns |-> p[1], hit |-> ~miss, did |-> r.did]
            /\ first' = IF miss /\ Truthy(filename) /\ r.out.t = "returned"
                           /\ first[filename.v] = NoCall
                        THEN [first EXCEPT ![filename.v] = r.out]
                        ELSE first
            /\ UNCHANGED <<DEFAULT_PARAMS, dirs>>

---------------------------------------------------------------------------
(* The callers of read_kepler_data *)

Tables == {"q1_q17_dr25_stellar", "exoplanets"}

ColumnArgs ==
    { None,
      List(<< <<"kepid">> >>),
      Dict(<< Item("kepid", "Kepler ID") >>) }

WhereArgs == {None, Str("kepid=8113154")}

FilenameArgs == {None, Str("")} \cup {Str(path) : path \in Paths}

\* files found at "my_file.csv" when the program starts: none, the file of
\* test_read_kepler_data, a file with the columns of the remote source, a
\* file of no bytes
InitialFiles ==
    { NoFile,
      File(<<"A", "\n", "1", "\n", "2", "\n", "3", "\n">>),
      File(<<"kepid", ",", "tm_designation", "\n",
             "8", "1", "1", "3", "1", "5", "4", ",", "2MASS J19473063+4356298", "\n">>),
      File(<<>>) }

Init ==
    /\ DEFAULT_PARAMS = DefaultParamsLiteral
    /\ \E f \in InitialFiles :
           files = [path \in Paths |-> IF path = "my_file.csv" THEN f ELSE NoFile]
    /\ dirs = {"."}
    /\ call = [op |-> "none"]
    /\ ret = NoCall
    /\ first = [path \in Paths |-> NoCall]

Next ==
    \E table \in Tables, columns \in ColumnArgs, where \in WhereArgs,
       filename \in FilenameArgs :
        read_kepler_data(table, columns, where, filename)

Spec == Init /\ [][Next]_vars

---------------------------------------------------------------------------
(* The callers of get_default_params *)

ParamTables == {"q1_q17_dr25_stellar", "cumulative", "exoplanets", ""}

ParamColumns ==
    { None, List(<<>>), Dict(<<>>), Str(""),
      List(<< <<"col1">>, <<"col2">> >>),
      List(<< <<"*">> >>),
      Dict(<< Item("kepid", "Kepler ID") >>) }

ParamWheres == {None, Str(""), Str("kepid=12345"), Str("st_quarters like '%1%'")}

\* a call of get_default_params
GetDefaultParams(table, columns, where) ==
    /\ ret' = Returned(get_default_params(table, columns, where))
    /\ call' = [op |-> "get_default_params", table |-> table,
                columns |-> columns, where |-> where]
    /\ UNCHANGED <<DEFAULT_PARAMS, files, dirs, first>>

NextParams ==
    \E table \in ParamTables, columns \in ParamColumns, where \in ParamWheres :
        GetDefaultParams(table, columns, where)

SpecParams == Init /\ [][NextParams]_vars

---------------------------------------------------------------------------
(* The callers of rename_columns and record_dataframe *)

\* The cell of row i in a column of a kind: integers 1, 2, 3, ...;
\* integers -1, 0, 1, ...; texts, one with a comma and one with a quote
\* character; texts made of digits only.
FrameCell(kind, i) ==
    CASE kind = "int" -> [t |-> "int", v |-> i]
      [] kind = "neg" -> [t |-> "int", v |-> i - 2]
      [] kind = "text" ->
            [t |-> "str",
             v |-> << <<"2MASS J19473063+4356298">>, <<"a", ",", "b">>,
                      <<"q", "\"", "z">> >>[((i - 1) % 3) + 1]]
      [] kind = "digits" ->
            [t |-> "str",
             v |-> << <<"0", "7">>, <<"1", "1", "1", "0">> >>[((i - 1) % 2) + 1]]

\* the column names and the column kinds of the tables callers pass
FrameShapes ==
    { << << <<"A">> >>, <<"int">> >>,
      << << <<"A">> >>, <<"digits">> >>,
      << << <<"A">>, <<"B">> >>, <<"int", "text">> >>,
      << << <<"B">>, <<"A">> >>, <<"text", "digits">> >>,
      << << <<"a", ",", "b">>, <<"A">> >>, <<"text", "neg">> >>,
      << << <<"B">>, <<"B">> >>, <<"int", "neg">> >>,
      << << <<"kepid">>, <<"tm_designation">> >>, <<"int", "text">> >> }

Frame(shape, n) ==
    [columns |-> shape[1],
     rows |-> [i \in 1..n |-> [j \in 1..Len(shape[1]) |-> FrameCell(shape[2][j], i)]]]

Frames == {Frame(x[1], x[2]) : x \in FrameShapes \X (0..MaxFrameRows)}

RenameArgs ==
    { List(<< <<"A">> >>),
      Dict(<< Item("A", "B") >>),
      Dict(<< Item("A", "B"), Item("B", "A") >>),
      Dict(<< Item("kepid", "Kepler ID"), Item("tm_designation", "2MASS ID") >>),
      Dict(<< Item("kepid", "Kepler ID"), Item("ra", "RA") >>),
      None }

\* a call of rename_columns
RenameColumns(df, columns) ==
    /\ ret' = Returned(rename_columns(df, columns))
    /\ call' = [op |-> "rename_columns", df |-> df, columns |-> columns]
    /\ UNCHANGED <<DEFAULT_PARAMS, files, dirs, first>>

NextRename == \E df \in Frames, columns \in RenameArgs : RenameColumns(df, columns)

SpecRename == Init /\ [][NextRename]_vars

\* a call of record_dataframe
RecordDataframe(df, filename) ==
    LET w == record_dataframe(df, filename, files, dirs) IN
        /\ files' = w.files
        /\ ret' = w.out
        /\ call' = [op |-> "record_dataframe", df |-> df, filename |-> filename,
                    did |-> w.did]
        /\ UNCHANGED <<DEFAULT_PARAMS, dirs, first>>

NextRecord == \E df \in Frames, filename \in FilenameArgs : RecordDataframe(df, filename)

SpecRecord == Init /\ [][NextRecord]_vars

---------------------------------------------------------------------------
(* Properties *)

\* how many times a call made the library call x
Count(did, x) == Cardinality({i \in 1..Len(did) : did[i] = x})

IsRead(c) == c.op = "read_kepler_data"

\* the table of test_rename_columns and test_record_dataframe: A = 1, 2, 3
FrameA123 == Frame(<< << <<"A">> >>, <<"int">> >>, 3)

\* the records a table is written as: its column names, then the texts of
\* each row
RecordsOf(df) == <<df.columns>> \o [i \in 1..Len(df.rows) |-> RowTexts(df.rows[i])]

\* The table is one read_csv gives back as it was written: its column names
\* are distinct, and no column of texts holds only texts that read as
\* integers.
ReadsBackUnchanged(df) ==
    /\ \A i, j \in 1..Len(df.columns) : df.columns[i] = df.columns[j] => i = j
    /\ \A j \in 1..Len(df.columns) :
           \/ df.rows = <<>>
           \/ \E i \in 1..Len(df.rows) :
                 \/ df.rows[i][j].t = "int"
                 \/ ~IsIntText(df.rows[i][j].v)

\* C1: a call of read_kepler_data with a filename at which a file exists
\* returns what read_csv reads from that file (or raises what read_csv
\* raises) and does not invoke get_kepler_data, whatever table, columns and
\* where are.
C1_HitReturnsFile ==
    [][ (IsRead(call') /\ Truthy(call'.filename) /\ isfile(files, call'.filename.v))
          => /\ ret' = read_csv(files[call'.filename.v].v)
             /\ Count(call'.did, "get_kepler_data") = 0
             /\ Count(call'.did, "query_criteria") = 0 ]_vars

\* the file of test_read_kepler_data is returned to a call that asks for
\* the column kepid
C1_Witness ==
    /\ IsRead(call) /\ call.hit
    /\ call.columns = List(<< <<"kepid">> >>)
    /\ ret = Returned(FrameA123)

\* C2: a call of read_kepler_data with no filename (None or "") invokes
\* get_kepler_data exactly once, which queries the remote source at most
\* once, reads no file and leaves the file system as it was.
C2_NoFilenameFetches ==
    [][ (IsRead(call') /\ ~Truthy(call'.filename))
          => /\ Count(call'.did, "get_kepler_data") = 1
             /\ Count(call'.did, "query_criteria") <= 1
             /\ ret'.t = "returned" => Count(call'.did, "query_criteria") = 1
             /\ Count(call'.did, "read_csv") = 0
             /\ Count(call'.did, "to_csv") = 0
             /\ files' = files
             /\ dirs' = dirs ]_vars

\* a call with filename "" has returned a fetched table while a file exists
C2_Witness ==
    /\ IsRead(call) /\ call.filename = Str("")
    /\ ret.t = "returned"
    /\ isfile(files, "my_file.csv")

\* the values that are not truthy
Falsy == {None, List(<<>>), Dict(<<>>), Str("")}

\* C3: get_default_params returns, for a table with an entry in
\* DEFAULT_PARAMS, the caller's columns unless they are None, [], {} or "",
\* and then the table's default columns, and likewise for where (whose
\* default may be None); for a table with no entry, the caller's values;
\* it never raises.
C3_DefaultParamsPolicy ==
    call.op = "get_default_params" =>
        /\ ret.t = "returned"
        /\ IF call.table \in {"q1_q17_dr25_stellar", "cumulative"}
           THEN /\ ret.v[1] = IF call.columns \in Falsy
                              THEN DefaultParamsLiteral[call.table].columns
                              ELSE call.columns
                /\ ret.v[2] = IF call.where \in Falsy
                              THEN DefaultParamsLiteral[call.table].where
                              ELSE call.where
           ELSE ret.v = <<call.columns, call.where>>

\* an empty list of columns and an empty where for the table cumulative
\* give that table's columns and its default where, None
C3_Witness ==
    /\ call.op = "get_default_params"
    /\ call.table = "cumulative"
    /\ call.columns = List(<<>>)
    /\ call.where = Str("")
    /\ IsDict(ret.v[1]) /\ Len(ret.v[1].v) = 31
    /\ ret.v[2] = None

\* C4: rename_columns with a mapping gives every column whose name is a key
\* the mapped name and leaves the other names, the order of the columns
\* and the rows as they are; with a sequence it returns the table as it is.
C4_RenameColumns ==
    call.op = "rename_columns" =>
        /\ ret.t = "returned"
        /\ ret.v.rows = call.df.rows
        /\ Len(ret.v.columns) = Len(call.df.columns)
        /\ \A i \in 1..Len(call.df.columns) :
              LET name == call.df.columns[i]
                  items == IF IsDict(call.columns)
                           THEN {call.columns.v[k] : k \in 1..Len(call.columns.v)}
                           ELSE {}
              IN  IF \E item \in items : item[1] = name
                  THEN \E item \in items : item[1] = name /\ ret.v.columns[i] = item[2]
                  ELSE ret.v.columns[i] = name

\* the mapping A -> B, B -> A has swapped the names of a table B, A with rows
C4_Witness ==
    /\ call.op = "rename_columns"
    /\ call.columns = Dict(<< Item("A", "B"), Item("B", "A") >>)
    /\ call.df.columns = << <<"B">>, <<"A">> >>
    /\ ret.v.columns = << <<"A">>, <<"B">> >>
    /\ Len(ret.v.rows) = 2

LaterCall(p) == first[p] # NoCall /\ IsRead(call') /\ call'.filename = Str(p)

\* C6, as stated: once a cache-miss call with a filename has returned, the
\* file exists at filename, and every later call with that filename
\* invokes no remote fetch and returns the column names and rows the first
\* call returned.
C6_LaterCallsReturnFirst ==
    /\ [](\A p \in Paths : first[p] # NoCall => isfile(files, p))
    /\ [][ \A p \in Paths : LaterCall(p)
              => /\ Count(call'.did, "get_kepler_data") = 0
                 /\ ret' = first[p] ]_vars

\* C6, amended: once a cache-miss call with a filename has returned, the
\* file exists at filename, and every later call with that filename
\* invokes no remote fetch and returns what read_csv reads from the file
\* the first call wrote: a table with as many columns and rows as the
\* first call returned, and the same table when its column names are
\* distinct and no column of texts holds only texts that read as integers.
C6_LaterCallsReturnFile ==
    /\ [](\A p \in Paths : first[p] # NoCall => isfile(files, p))
    /\ [][ \A p \in Paths : LaterCall(p)
              => /\ Count(call'.did, "get_kepler_data") = 0
                 /\ Count(call'.did, "query_criteria") = 0
                 /\ ret' = read_csv(files[p].v)
                 /\ files' = files
                 /\ CsvRecords(files[p].v) = RecordsOf(first[p].v)
                 /\ ret'.t = "returned"
                 /\ Len(ret'.v.columns) = Len(first[p].v.columns)
                 /\ Len(ret'.v.rows) = Len(first[p].v.rows)
                 /\ ReadsBackUnchanged(first[p].v) => ret' = first[p] ]_vars

\* a later call has returned the two rows the first call fetched
C6_Witness ==
    /\ IsRead(call) /\ call.hit /\ call.filename = Str("my_file.csv")
    /\ first["my_file.csv"] # NoCall
    /\ ret = first["my_file.csv"]
    /\ Len(ret.v.rows) = 2

C8_DirectoryCreated ==
    ( /\ call.op \in {"read_kepler_data", "record_dataframe"}
      /\ call.filename = Str("out/sub/data.csv")
      /\ Count(call.did, "to_csv") = 1 )
      => /\ "out/sub" \in dirs
         /\ "out" \in dirs
         /\ isfile(files, "out/sub/data.csv")
         /\ ret.t = "returned"

\* C9: a call of read_kepler_data with a filename at which a file exists
\* writes nothing: the files, the directories and DEFAULT_PARAMS are after
\* the call what they were before it.
C9_HitWritesNothing ==
    [][ (IsRead(call') /\ Truthy(call'.filename) /\ isfile(files, call'.filename.v))
          => /\ files' = files
             /\ dirs' = dirs
             /\ DEFAULT_PARAMS' = DEFAULT_PARAMS
             /\ Count(call'.did, "to_csv") = 0 ]_vars

\* a cache-hit call has returned the table of a file the program wrote
C9_Witness ==
    /\ IsRead(call) /\ call.hit
    /\ ret.t = "returned"
    /\ first[call.filename.v] # NoCall
    /\ DEFAULT_PARAMS = DefaultParamsLiteral

\* the call failed in get_kepler_data
FetchFailed(c, r) ==
    /\ IsRead(c) /\ ~c.hit
    /\ r.t = "raised" /\ r.v \in {"RemoteError", "TypeError"}

\* C10: a cache-miss call of read_kepler_data with a filename whose fetch
\* fails raises that failure after one invocation of get_kepler_data and
\* at most one query (exactly one when the remote source failed), leaves
\* the file system as it was, with no file at filename, and the next call
\* with that filename is a cache miss that invokes get_kepler_data again.
C10_FetchFailure ==
    /\ [][ (FetchFailed(call', ret') /\ Truthy(call'.filename))
             => /\ Count(call'.did, "get_kepler_data") = 1
                /\ Count(call'.did, "query_criteria") <= 1
                /\ ret'.v = "RemoteError" => Count(call'.did, "query_criteria") = 1
                /\ Count(call'.did, "to_csv") = 0
                /\ files' = files
                /\ dirs' = dirs
                /\ ~isfile(files', call'.filename.v) ]_vars
    /\ [][ ( /\ FetchFailed(call, ret) /\ Truthy(call.filename)
             /\ IsRead(call') /\ call'.filename = call.filename )
             => /\ ~call'.hit
                /\ Count(call'.did, "get_kepler_data") = 1 ]_vars

\* the remote source has failed a call with the filename my_file.csv
C10_Witness ==
    /\ FetchFailed(call, ret) /\ ret.v = "RemoteError"
    /\ call.filename = Str("my_file.csv")
    /\ call.did = <<"get_kepler_data", "query_criteria">>
    /\ ~isfile(files, "my_file.csv")

============================================================================
